---- MODULE Spec2Model ----
(***************************************************************************)
(* ECB reference-rate history: the daily flow (main.py) and the 90-day     *)
(* backfill flow (backfill_90d.py).  A DataFrame is modelled as a record   *)
(*   [cols |-> set of non-date column names,                               *)
(*    rows |-> sequence of [date |-> d, cell |-> [cols -> Float]]]         *)
(* where the sequence order is the frame's row order and a Float is NaN,   *)
(* +infinity or a finite rational.                                         *)
(***************************************************************************)
EXTENDS Integers, Sequences, FiniteSets, TLC

VARIABLES hist, op, pre, arg, targets, exc, out,
          pc, flow, fileRaw, filePln, dashboard, mem, feed, dfPln,
          fetched, merged, wrote, exitCode

vars == <<hist, op, pre, arg, targets, exc, out,
          pc, flow, fileRaw, filePln, dashboard, mem, feed, dfPln,
          fetched, merged, wrote, exitCode>>

callVars == <<hist, op, pre, arg, targets, exc, out>>
flowVars == <<pc, flow, fileRaw, filePln, dashboard, mem, feed, dfPln,
              fetched, merged, wrote, exitCode>>

----------------------------------------------------------------------------
(* Bounds and universes *)

\* dates are the days 1..MaxDate
MaxDate == 2
Dates == 1..MaxDate

\* the currency attributes the feed may carry (already upper-cased)
Currencies == {"PLN", "USD"}

\* the currency attributes of the feed the two flows are run against
FlowCurrencies == {"PLN"}

\* the rate attributes the feed may carry; "x" does not parse as a float
RawRates == {"0", "1", "x"}

TARGETS == {"EUR", "USD", "GBP", "CHF"}

----------------------------------------------------------------------------
(* Floats *)

NaN == [tag |-> "nan"]
Inf == [tag |-> "inf"]
Num(n) == [tag |-> "num", num |-> n, den |-> 1]

RECURSIVE GCD(_, _)
GCD(a, b) == IF b = 0 THEN a ELSE GCD(b, a % b)

Ratio(a, b) == [tag |-> "num", num |-> a \div GCD(a, b), den |-> b \div GCD(a, b)]

\* pd.isna / notna: only NaN is missing; infinity is a value
IsNa(x) == x = NaN

\* float(n.attrib["rate"]), ValueError -> float("nan")
ParseRate(s) ==
  CASE s = "0" -> Num(0)
    [] s = "1" -> Num(1)
    [] s = "2" -> Num(2)
    [] OTHER -> NaN

\* float64 division of two cells as pandas does it (no exception is raised)
FDiv(x, y) ==
  IF IsNa(x) \/ IsNa(y) THEN NaN
  ELSE IF y.num = 0 THEN (IF x.num = 0 THEN NaN ELSE Inf)
  ELSE Ratio(x.num * y.den, x.den * y.num)

Cells == {ParseRate(s) : s \in RawRates}

----------------------------------------------------------------------------
(* Frames *)

\* pd.DataFrame(columns=["date"]): zero rows, only the date column
EmptyFrame == [cols |-> {}, rows |-> <<>>]

DatesOf(f) == {f.rows[i].date : i \in DOMAIN f.rows}

RowAt(f, d) == f.rows[CHOOSE i \in DOMAIN f.rows : f.rows[i].date = d]

\* DataFrame.empty
IsEmpty(f) == Len(f.rows) = 0

RECURSIVE InsertByDate(_, _)
InsertByDate(sorted, r) ==
  IF sorted = <<>> THEN <<r>>
  ELSE IF Head(sorted).date <= r.date
       THEN <<Head(sorted)>> \o InsertByDate(Tail(sorted), r)
       ELSE <<r>> \o sorted

RECURSIVE SortRows(_)
SortRows(rows) ==
  IF rows = <<>> THEN <<>>
  ELSE InsertByDate(SortRows(SubSeq(rows, 1, Len(rows) - 1)), rows[Len(rows)])

\* df.sort_values("date") / sort_index() on the date index
SortByDate(f) == [cols |-> f.cols, rows |-> SortRows(f.rows)]

\* reindex of the columns: new columns are filled with NaN, others dropped
Reindex(r, cols, have) ==
  [date |-> r.date,
   cell |-> [c \in cols |-> IF c \in have THEN r.cell[c] ELSE NaN]]

\* pd.concat([a, b]): rows of a then rows of b, over the union of the columns
Concat(a, b) ==
  LET cols == a.cols \cup b.cols
  IN [cols |-> cols,
      rows |-> [i \in 1..Len(a.rows) |-> Reindex(a.rows[i], cols, a.cols)]
               \o [i \in 1..Len(b.rows) |-> Reindex(b.rows[i], cols, b.cols)]]

RECURSIVE SeqOfSet(_)
SeqOfSet(S) ==
  IF S = {} THEN <<>>
  ELSE LET m == CHOOSE x \in S : \A y \in S : x <= y
       IN <<m>> \o SeqOfSet(S \ {m})

Orders(S) == {o \in [1..Cardinality(S) -> S] : \A i, j \in DOMAIN o : i # j => o[i] # o[j]}

FrameOf(cols, order, m) ==
  [cols |-> cols,
   rows |-> [i \in DOMAIN order |-> [date |-> order[i], cell |-> m[order[i]]]]]

----------------------------------------------------------------------------
(* Feeds *)

NonEmptyDateSets == (SUBSET Dates) \ {{}}

\* what fetch_ecb_daily_xml returns: one row, the date and the parsed rates
DailyRowsOver(ccys) ==
  UNION {{FrameOf(cols, <<d>>, m) : m \in [{d} -> [cols -> Cells]]}
         : <<cols, d>> \in (SUBSET ccys) \X Dates}

\* what fetch_ecb_90d_xml returns: at least one row, sorted by date, unique dates
BatchesOver(ccys) ==
  UNION {{FrameOf(cols, SeqOfSet(ds), m) : m \in [ds -> [cols -> Cells]]}
         : <<cols, ds>> \in (SUBSET ccys) \X NonEmptyDateSets}

DailyRows == DailyRowsOver(Currencies)

Batches == BatchesOver(Currencies)

\* batches with unique dates in any row order, as a caller other than
\* fetch_ecb_90d_xml may pass them to upsert_90d_into_history
AnyOrderBatches ==
  UNION {{FrameOf(cols, o, m) : m \in [ds -> [cols -> Cells]], o \in Orders(ds)}
         : <<cols, ds>> \in (SUBSET Currencies) \X NonEmptyDateSets}

----------------------------------------------------------------------------
(* Merge engine *)

Ok(f) == [exc |-> "none", val |-> f]
Raise(e, f) == [exc |-> e, val |-> f]

\* history[col] = pd.Series(dtype="float") for every column of today_row the
\* history lacks (done in place, on the caller's frame)
AddMissingCols(history, today_row) ==
  LET cols == history.cols \cup today_row.cols
  IN [cols |-> cols,
      rows |-> [i \in DOMAIN history.rows |-> Reindex(history.rows[i], cols, history.cols)]]

\* the rows 100-102 of upsert_daily_row act on the caller's frame: what the
\* caller's history holds once the call is over, returned or raised
HistoryAfterDaily(history, today_row) ==
  IF IsEmpty(today_row) \/ today_row.rows[1].date \in DatesOf(history)
  THEN history
  ELSE AddMissingCols(history, today_row)

\* main.py upsert_daily_row: today_row[history.columns] raises KeyError when
\* the history has a column the row lacks
upsert_daily_row(history, today_row) ==
  IF IsEmpty(today_row) THEN Ok(history)
  ELSE IF today_row.rows[1].date \in DatesOf(history) THEN Ok(history)
  ELSE LET widened == AddMissingCols(history, today_row)
       IN IF ~(widened.cols \subseteq today_row.cols)
          THEN Raise("KeyError", EmptyFrame)
          ELSE Ok(SortByDate(Concat(widened, today_row)))

\* a replace instead of a partial update: on a shared date the batch row takes
\* the place of the history row, its absent columns left missing
UpdateReplacingRow(h, b) ==
  [cols |-> h.cols,
   rows |-> [i \in DOMAIN h.rows |->
     IF h.rows[i].date \in DatesOf(b)
     THEN Reindex(RowAt(b, h.rows[i].date), h.cols, b.cols)
     ELSE h.rows[i]]]

\* an update that does not mask the missing cells of the batch
UpdateOverwritingWithMissing(h, b) ==
  [cols |-> h.cols,
   rows |-> [i \in DOMAIN h.rows |->
     LET r == h.rows[i]
     IN IF r.date \notin DatesOf(b) THEN r
        ELSE [date |-> r.date,
              cell |-> [c \in h.cols |->
                 IF c \in b.cols THEN RowAt(b, r.date).cell[c] ELSE r.cell[c]]]]]

\* DataFrame.update(other): for the columns both frames have, on the dates both
\* frames have, a non-missing cell of other overwrites the cell
Update(h, b) ==
  LET both == DatesOf(h) \cap DatesOf(b)
      shared == h.cols \cap b.cols
  IN [cols |-> h.cols,
      rows |-> [i \in DOMAIN h.rows |->
        LET r == h.rows[i]
        IN IF r.date \notin both THEN r
           ELSE LET o == RowAt(b, r.date)
                IN [date |-> r.date,
                    cell |-> [c \in h.cols |->
                       IF c \in shared /\ ~IsNa(o.cell[c]) THEN o.cell[c] ELSE r.cell[c]]]]]

\* last90_idx.loc[missing_idx]: the rows of the batch on the given dates, ascending
RowsOn(b, ds) ==
  [cols |-> b.cols, rows |-> [i \in 1..Cardinality(ds) |-> RowAt(b, SeqOfSet(ds)[i])]]

\* backfill_90d.py upsert_90d_into_history
upsert_90d_into_history(h, last90) ==
  IF IsEmpty(h) THEN last90
  ELSE LET updated == Update(h, last90)
           missing_idx == DatesOf(last90) \ DatesOf(h)
           joined == IF Cardinality(missing_idx) > 0
                     THEN Concat(updated, RowsOn(last90, missing_idx))
                     ELSE updated
       IN SortByDate(joined)

----------------------------------------------------------------------------
(* Cross rates *)

DerivedCol(ccy) == ccy \o "_PLN"

\* EUR treated like any other target: skipped unless it is a column
DerivableOnlyColumns(df, tgts) == tgts \cap df.cols

\* the targets that get a derived column
Derivable(df, tgts) ==
  (IF "EUR" \in tgts THEN {"EUR"} ELSE {}) \cup ((tgts \ {"EUR"}) \cap df.cols)

DerivedCell(r, ccy) ==
  IF ccy = "EUR" THEN r.cell["PLN"] ELSE FDiv(r.cell["PLN"], r.cell[ccy])

\* out.dropna(how="all", subset=<all derived columns>)
DropAllNa(f) ==
  [cols |-> f.cols,
   rows |-> SelectSeq(f.rows, LAMBDA r : \E c \in f.cols : ~IsNa(r.cell[c]))]

\* compute_pln_rates (main.py and backfill_90d.py hold the same code)
compute_pln_rates(df, tgts) ==
  IF "PLN" \notin df.cols THEN Raise("ValueError", EmptyFrame)
  ELSE LET K == Derivable(df, tgts)
           cols == {DerivedCol(c) : c \in K}
           o == [cols |-> cols,
                 rows |-> [i \in DOMAIN df.rows |->
                    [date |-> df.rows[i].date,
                     cell |-> [n \in cols |->
                        DerivedCell(df.rows[i], CHOOSE c \in K : DerivedCol(c) = n)]]]]
       IN Ok(SortByDate(DropAllNa(o)))



----------------------------------------------------------------------------
(* Flow steps shared by main.py main and backfill_90d.py main *)

NoFile == [exists |-> FALSE, data |-> EmptyFrame]
FileOf(f) == [exists |-> TRUE, data |-> f]

\* load_history: the stored table sorted by date, or the empty frame
load_history(file) == IF file.exists THEN SortByDate(file.data) ELSE EmptyFrame

\* backfill_90d.py save_history sorts before writing; main.py writes hist as it is
save_history(df) == FileOf(SortByDate(df))

\* make_dashboard: the placeholder page for an empty series, the chart otherwise
make_dashboard(df_pln) == IF IsEmpty(df_pln) THEN "placeholder" ELSE "chart"

FlowIdle ==
  /\ pc = "idle" /\ flow = "none" /\ fileRaw = NoFile /\ filePln = NoFile
  /\ dashboard = "none" /\ mem = EmptyFrame /\ feed = EmptyFrame /\ dfPln = EmptyFrame
  /\ fetched = FALSE /\ merged = FALSE /\ wrote = {} /\ exitCode = 0

CallIdle ==
  /\ hist = EmptyFrame /\ op = "idle" /\ pre = EmptyFrame /\ arg = EmptyFrame
  /\ targets = {} /\ exc = "none" /\ out = EmptyFrame

Init == CallIdle /\ FlowIdle

----------------------------------------------------------------------------
(* The merge and derive functions called one after the other on a history   *)
(* that starts empty: a call leaves its argument, its result and the        *)
(* history it was given in op, arg, targets, exc, out and pre.              *)

Call(name, before, a, tgts, e, result, after) ==
  /\ op' = name /\ pre' = before /\ arg' = a /\ targets' = tgts
  /\ exc' = e /\ out' = result /\ hist' = after
  /\ UNCHANGED flowVars

DailyUpsert ==
  /\ op = "idle"
  /\ \E today \in DailyRows :
       LET r == upsert_daily_row(hist, today)
       IN Call("daily", hist, today, {}, r.exc, r.val, HistoryAfterDaily(hist, today))

BatchUpsert ==
  /\ op = "idle"
  /\ \E last90 \in Batches :
       Call("batch", hist, last90, {}, "none", upsert_90d_into_history(hist, last90), hist)

BatchUpsertAnyOrder ==
  /\ op = "idle"
  /\ \E last90 \in AnyOrderBatches :
       Call("batch", hist, last90, {}, "none", upsert_90d_into_history(hist, last90), hist)

Derive ==
  /\ op = "idle"
  /\ \E tgts \in SUBSET TARGETS :
       LET r == compute_pln_rates(hist, tgts)
       IN Call("derive", hist, EmptyFrame, tgts, r.exc, r.val, hist)

\* hist = upsert_daily_row(hist, today_df) / merged = upsert_90d_into_history(...):
\* the caller takes the returned history; a derived series or an exception
\* leaves the history as the call left it
Return ==
  /\ op # "idle"
  /\ hist' = IF op \in {"daily", "batch"} /\ exc = "none" THEN out ELSE hist
  /\ op' = "idle" /\ pre' = EmptyFrame /\ arg' = EmptyFrame /\ targets' = {}
  /\ exc' = "none" /\ out' = EmptyFrame
  /\ UNCHANGED flowVars

Next == DailyUpsert \/ BatchUpsert \/ Derive \/ Return

Spec == Init /\ [][Next]_vars

NextAnyOrder == DailyUpsert \/ BatchUpsertAnyOrder \/ Derive \/ Return

SpecAnyOrder == Init /\ [][NextAnyOrder]_vars

----------------------------------------------------------------------------
(* The two flows, step by step, against the stored files.  A run starts     *)
(* when no other run is under way, as the flows are not run concurrently.   *)

\* ensure_dirs(); hist = load_history(HIST_RAW), in a fresh process
StartRun ==
  /\ pc \in {"idle", "exited"}
  /\ pc' = "loaded" /\ mem' = load_history(fileRaw)
  /\ feed' = EmptyFrame /\ dfPln' = EmptyFrame
  /\ fetched' = FALSE /\ merged' = FALSE /\ wrote' = {} /\ exitCode' = 0
  /\ UNCHANGED <<fileRaw, filePln, dashboard>>
  /\ UNCHANGED callVars

\* main.py main is started
StartDaily ==
  /\ flow' = "daily"
  /\ StartRun

\* backfill_90d.py main is started
StartBackfill ==
  /\ flow' = "backfill"
  /\ StartRun

\* except Exception: print; sys.exit(1)
ExitWithError ==
  /\ pc' = "exited" /\ exitCode' = 1
  /\ UNCHANGED <<flow, fileRaw, filePln, dashboard, feed, dfPln, fetched, merged, wrote>>

\* the exception of the fetch swallowed: the run goes on with no observation
FetchRaisesSwallowed ==
  /\ pc = "loaded"
  /\ pc' = "fetched" /\ feed' = EmptyFrame
  /\ UNCHANGED <<flow, fileRaw, filePln, dashboard, mem, dfPln, fetched, merged, wrote,
                 exitCode>>
  /\ UNCHANGED callVars

\* the fetch raises: the request fails, the status is an error, the XML does
\* not parse, or it holds no Cube with a time attribute
FetchRaises ==
  /\ pc = "loaded"
  /\ ExitWithError
  /\ UNCHANGED mem
  /\ UNCHANGED callVars

FetchReturns(rows) ==
  /\ pc = "loaded"
  /\ \E f \in rows :
       /\ feed' = f /\ fetched' = TRUE /\ pc' = "fetched"
       /\ UNCHANGED <<flow, fileRaw, filePln, dashboard, mem, dfPln, merged, wrote, exitCode>>
  /\ UNCHANGED callVars

\* today_df = fetch_ecb_daily_xml()
FetchDaily == flow = "daily" /\ FetchReturns(DailyRowsOver(FlowCurrencies))

\* last90 = fetch_ecb_90d_xml()
FetchBackfill == flow = "backfill" /\ FetchReturns(BatchesOver(FlowCurrencies))

\* hist = upsert_daily_row(hist, today_df)
MergeDaily ==
  /\ pc = "fetched" /\ flow = "daily"
  /\ LET r == upsert_daily_row(mem, feed)
     IN IF r.exc = "none"
        THEN /\ mem' = r.val /\ merged' = TRUE /\ pc' = "merged"
             /\ UNCHANGED <<flow, fileRaw, filePln, dashboard, feed, dfPln, fetched,
                            wrote, exitCode>>
        ELSE /\ mem' = HistoryAfterDaily(mem, feed)
             /\ ExitWithError
  /\ UNCHANGED callVars

\* merged = upsert_90d_into_history(hist, last90)
MergeBackfill ==
  /\ pc = "fetched" /\ flow = "backfill"
  /\ mem' = upsert_90d_into_history(mem, feed) /\ merged' = TRUE /\ pc' = "merged"
  /\ UNCHANGED <<flow, fileRaw, filePln, dashboard, feed, dfPln, fetched, wrote, exitCode>>
  /\ UNCHANGED callVars

\* hist.to_csv(HIST_RAW, index=False) / save_history(HIST_RAW, merged)
SaveHistory ==
  /\ pc = "merged"
  /\ fileRaw' = IF flow = "daily" THEN FileOf(mem) ELSE save_history(mem)
  /\ wrote' = wrote \cup {"raw"} /\ pc' = "saved"
  /\ UNCHANGED <<flow, filePln, dashboard, mem, feed, dfPln, fetched, merged, exitCode>>
  /\ UNCHANGED callVars

\* df_pln = compute_pln_rates(hist, TARGETS)
DerivePln ==
  /\ pc = "saved"
  /\ LET r == compute_pln_rates(mem, TARGETS)
     IN IF r.exc = "none"
        THEN /\ dfPln' = r.val /\ pc' = "derived"
             /\ UNCHANGED <<flow, fileRaw, filePln, dashboard, feed, fetched, merged,
                            wrote, exitCode>>
        ELSE /\ pc' = "exited" /\ exitCode' = 1
             /\ UNCHANGED <<flow, fileRaw, filePln, dashboard, feed, dfPln, fetched,
                            merged, wrote>>
  /\ UNCHANGED mem
  /\ UNCHANGED callVars

\* df_pln.to_csv(HIST_PLN, index=False); the backfill flow ends here
SavePln ==
  /\ pc = "derived"
  /\ filePln' = FileOf(dfPln) /\ wrote' = wrote \cup {"pln"}
  /\ pc' = IF flow = "daily" THEN "plnSaved" ELSE "exited"
  /\ UNCHANGED <<flow, fileRaw, dashboard, mem, feed, dfPln, fetched, merged, exitCode>>
  /\ UNCHANGED callVars

\* make_dashboard(df_pln, TARGETS, DASHBOARD_HTML, CHART_LAST_N_DAYS)
Dashboard ==
  /\ pc = "plnSaved"
  /\ dashboard' = make_dashboard(dfPln) /\ wrote' = wrote \cup {"dashboard"}
  /\ pc' = "exited"
  /\ UNCHANGED <<flow, fileRaw, filePln, mem, feed, dfPln, fetched, merged, exitCode>>
  /\ UNCHANGED callVars

NextFlow ==
  \/ StartDaily \/ StartBackfill \/ FetchRaises \/ FetchDaily \/ FetchBackfill
  \/ MergeDaily \/ MergeBackfill \/ SaveHistory \/ DerivePln \/ SavePln \/ Dashboard

SpecFlow == Init /\ [][NextFlow]_vars

----------------------------------------------------------------------------
(* Properties *)

Cell(f, d, c) == RowAt(f, d).cell[c]

Present(x) == ~IsNa(x)

UniqueDates(f) == Cardinality(DatesOf(f)) = Len(f.rows)

StrictlyAscending(f) ==
  \A i \in 1..(Len(f.rows) - 1) : f.rows[i].date < f.rows[i + 1].date

\* the same dates, the same columns and the same cell values
SameTable(f, g) ==
  /\ f.cols = g.cols /\ DatesOf(f) = DatesOf(g)
  /\ UniqueDates(f) /\ UniqueDates(g)
  /\ \A d \in DatesOf(f) : RowAt(f, d).cell = RowAt(g, d).cell

\* the batch gives no present value for the cell (d, c)
BatchSilentOn(b, d, c) ==
  d \notin DatesOf(b) \/ c \notin b.cols \/ IsNa(Cell(b, d, c))

\* C1: merging the batch a second time into the result of merging it once
\* gives the same dates, columns and cell values as merging it once.
C1_BatchMergeIdempotent ==
  op = "batch" => SameTable(upsert_90d_into_history(out, arg), out)

\* C2: a batch merge of an observation carrying a currency that is not yet a
\* column adds the column, holding the observation's value on its date and
\* missing on the prior rows outside the batch, and changes no other column
\* beyond the values the batch gives, whether or not the date is new.
C2_SchemaGrowth ==
  op = "batch" =>
    \A c \in arg.cols \ pre.cols, d \in DatesOf(arg) :
      Present(Cell(arg, d, c)) =>
        /\ c \in out.cols /\ d \in DatesOf(out)
        /\ Cell(out, d, c) = Cell(arg, d, c)
        /\ \A e \in DatesOf(pre) \ DatesOf(arg) : IsNa(Cell(out, e, c))
        /\ \A e \in DatesOf(pre), k \in pre.cols :
              BatchSilentOn(arg, e, k) => Cell(out, e, k) = Cell(pre, e, k)

\* C3: in both merge variants, inserting an observation for a new date that
\* lacks a currency the history has as a column succeeds, keeps the history's
\* columns and yields a row whose cell for that currency is missing.
C3_ColumnKeptForNewRow ==
  op \in {"daily", "batch"} =>
    \A d \in DatesOf(arg) \ DatesOf(pre), c \in pre.cols :
      (c \notin arg.cols \/ IsNa(Cell(arg, d, c))) =>
        /\ exc = "none"
        /\ d \in DatesOf(out) /\ pre.cols \subseteq out.cols
        /\ IsNa(Cell(out, d, c))

\* C4: in compute_pln_rates, a rate of 0 or a missing rate of a non-EUR target
\* gives a missing derived cell on that date: no error, no infinity.
C4_DivisionTolerance ==
  (op = "derive" /\ "PLN" \in pre.cols) =>
    /\ exc = "none"
    /\ \A d \in DatesOf(pre), c \in (targets \ {"EUR"}) \cap pre.cols :
         (IsNa(Cell(pre, d, c)) \/ Cell(pre, d, c) = Num(0)) =>
           (d \in DatesOf(out) => IsNa(Cell(out, d, DerivedCol(c))))

\* C5: after any sequence of merge calls from the empty history, with batches
\* of unique dates in any row order, and after a derive call on the result,
\* the rows returned are strictly ascending by date.
C5_SortedUnique ==
  (op \in {"daily", "batch", "derive"} /\ exc = "none") => StrictlyAscending(out)

\* C6: a batch merge into a non-empty history keeps, on a date of both, every
\* cell whose currency the batch lacks, gives every cell with a present batch
\* value that value, and leaves the rows on dates outside the batch as they were.
C6_PartialUpdate ==
  (op = "batch" /\ ~IsEmpty(pre)) =>
    LET batchDates == DatesOf(arg)
        outDates == DatesOf(out)
    IN /\ Cardinality(outDates) = Len(out.rows)
       /\ pre.cols \subseteq out.cols
       /\ \A i \in DOMAIN pre.rows :
            LET r == pre.rows[i]
                o == RowAt(out, r.date)
                b == RowAt(arg, r.date)
            IN /\ r.date \in outDates
               /\ \A c \in pre.cols :
                    IF r.date \notin batchDates \/ c \notin arg.cols
                    THEN o.cell[c] = r.cell[c]
                    ELSE Present(b.cell[c]) => o.cell[c] = b.cell[c]

\* a shared date where one currency is kept and another is replaced by a
\* different value, next to a history row the batch does not mention
C6_Witness ==
  /\ op = "batch"
  /\ DatesOf(pre) \ DatesOf(arg) # {}
  /\ \E d \in DatesOf(pre) \cap DatesOf(arg), c \in pre.cols \ arg.cols,
        k \in pre.cols \cap arg.cols :
       /\ Present(Cell(pre, d, c)) /\ Cell(out, d, c) = Cell(pre, d, c)
       /\ Present(Cell(pre, d, k)) /\ Present(Cell(arg, d, k))
       /\ Cell(arg, d, k) # Cell(pre, d, k) /\ Cell(out, d, k) = Cell(arg, d, k)

\* C7: upsert_daily_row returns the history as given when the date is already
\* a row; when it is not, exactly one row is added and the rows there keep
\* their values.
C7_DailyInsertIfAbsent ==
  op = "daily" =>
    IF arg.rows[1].date \in DatesOf(pre)
    THEN exc = "none" /\ out = pre
    ELSE /\ exc = "none"
         /\ Len(out.rows) = Len(pre.rows) + 1
         /\ \A d \in DatesOf(pre), c \in pre.cols : Cell(out, d, c) = Cell(pre, d, c)

\* C8 as stated: every target that is not a column of the history gives no
\* derived column and no error, and the series has zero rows when no target
\* is a column.
C8_SkippedTargetsAsStated ==
  (op = "derive" /\ "PLN" \in pre.cols) =>
    /\ exc = "none"
    /\ \A t \in targets \ pre.cols : DerivedCol(t) \notin out.cols
    /\ (targets \cap pre.cols = {}) => Len(out.rows) = 0

\* C8 as amended: every target other than EUR that is not a column of the
\* history gives no derived column and no error; EUR, when listed, always
\* gives EUR_PLN, equal to the PLN column; the series has zero rows when EUR
\* is not listed and no target is a column.
C8_SkippedTargets ==
  (op = "derive" /\ "PLN" \in pre.cols) =>
    /\ exc = "none"
    /\ \A t \in (targets \ {"EUR"}) \ pre.cols : DerivedCol(t) \notin out.cols
    /\ "EUR" \in targets =>
         /\ "EUR_PLN" \in out.cols
         /\ \A d \in DatesOf(out) : Cell(out, d, "EUR_PLN") = Cell(pre, d, "PLN")
         /\ \A d \in DatesOf(pre) : Present(Cell(pre, d, "PLN")) => d \in DatesOf(out)
    /\ ("EUR" \notin targets /\ targets \cap pre.cols = {}) => Len(out.rows) = 0

\* a history with the PLN and USD columns and EUR as the only listed target
\* that is derivable: the series has rows, all in the column EUR_PLN
C8_Witness ==
  /\ op = "derive" /\ exc = "none"
  /\ pre.cols = {"PLN", "USD"} /\ targets = {"EUR", "GBP"}
  /\ out.cols = {"EUR_PLN"} /\ Len(out.rows) > 0

\* C9: in both flows a fetch that raises ends the run with exit status 1 and
\* neither file written in that run; the history is written only after a
\* fetch and a merge that succeeded.
C9_FetchFailureLeavesStore ==
  /\ ~fetched => wrote = {}
  /\ (pc = "exited" /\ ~fetched) => exitCode = 1
  /\ "raw" \in wrote => (fetched /\ merged)

\* a run that found a stored history, failed to fetch and has exited
C9_Witness ==
  /\ pc = "exited" /\ ~fetched /\ exitCode = 1 /\ wrote = {}
  /\ fileRaw.exists /\ filePln.exists

\* C10: a batch merge into a non-empty history removes no date row and turns
\* no present cell into a missing one; a missing batch cell on a shared date
\* leaves the history's value in place.
C10_NeverErases ==
  (op = "batch" /\ ~IsEmpty(pre)) =>
    LET batchDates == DatesOf(arg)
        outDates == DatesOf(out)
    IN /\ pre.cols \subseteq out.cols
       /\ \A i \in DOMAIN pre.rows :
            LET r == pre.rows[i]
                o == RowAt(out, r.date)
                b == RowAt(arg, r.date)
            IN /\ r.date \in outDates
               /\ \A c \in pre.cols :
                    /\ Present(r.cell[c]) => Present(o.cell[c])
                    /\ (r.date \in batchDates /\ c \in arg.cols /\ IsNa(b.cell[c])) =>
                          o.cell[c] = r.cell[c]

\* a shared date and column where the batch cell is missing and the history
\* cell is present and kept
C10_Witness ==
  /\ op = "batch"
  /\ \E d \in DatesOf(pre) \cap DatesOf(arg), c \in pre.cols \cap arg.cols :
       /\ Present(Cell(pre, d, c)) /\ IsNa(Cell(arg, d, c))
       /\ Cell(out, d, c) = Cell(pre, d, c)

====
